---- MODULE Spec2Model ----
(***************************************************************************)
(* Model of cumulus/consensus/src/lib.rs: follow_polkadot, the future that *)
(* follows the relay chain for one parachain.  Two streams (head_updates,  *)
(* finalized_heads) are decoded and dispatched to the local client by two  *)
(* for_each futures that are joined into one task (futures 0.1).           *)
(***************************************************************************)
EXTENDS Integers, Sequences, FiniteSets, TLC

VARIABLES
    phase,      \* "new" (follow_polkadot not called yet), "pending", "complete", "dropped"
    acquired,   \* the subscriptions taken from the PolkadotClient, in order
    bestIn,     \* every event the head_updates stream has produced so far
    finIn,      \* every event the finalized_heads stream has produced so far
    bestPos,    \* how many events of bestIn follow_best has taken
    finPos,     \* how many events of finIn follow_finalized has taken
    bestDone,   \* Join's MaybeDone for follow_best: TRUE once it resolved Ok(())
    finDone,    \* Join's MaybeDone for follow_finalized
    result,     \* what the returned future resolved to: "NotReady", "Ok", "Err"
    notified,   \* a subscription has woken the task since the executor last polled it
    trace       \* what the task did, in order: takes, adapter calls, warn, resolve

vars == <<phase, acquired, bestIn, finIn, bestPos, finPos,
          bestDone, finDone, result, notified, trace>>

(* The number of events the two subscriptions deliver in one behaviour. *)
MaxEvents == 3

None == [none |-> TRUE]
ParaIds == {1, 2}

(***************************************************************************)
(* Head data.  A header is read field by field from the front of the input *)
(* (parity_codec's Decode::decode over &mut &[u8]); what is left of the    *)
(* input after the last field is dropped with the temporary slice.         *)
(***************************************************************************)
HeadDataSamples == { <<1>>,          \* too short for a header
                     <<0, 1>>,       \* header (0, 1)
                     <<1, 0, 1>> }   \* header (1, 0) followed by one more byte

ReadByte(input) ==
    IF input = <<>> THEN None ELSE [val |-> Head(input), rest |-> Tail(input)]

Decode(input) ==
    LET a == ReadByte(input) IN
    IF a = None THEN None
    ELSE LET b == ReadByte(a.rest) IN
         IF b = None THEN None
         ELSE [parent_hash |-> a.val, number |-> b.val]

Encode(header) == <<header.parent_hash, header.number>>

(* HeaderT::hash: a digest of the header's encoding. *)
HashOf(header) == [digest |-> Encode(header)]

(***************************************************************************)
(* Error<P> and the values the streams carry.                              *)
(***************************************************************************)
PolkadotErrors == {"p1", "p2"}
ClientErrors == {"c1"}

ErrClient(e) == [variant |-> "Client", payload |-> e]
ErrPolkadot(e) == [variant |-> "Polkadot", payload |-> e]
ErrInvalidHeadData == [variant |-> "InvalidHeadData", payload |-> "-"]

HeadUpdate(rh, rn, d) ==
    [relay_hash |-> rh, relay_number |-> rn, head_data |-> d]

(* The updates the head_updates stream may carry: every sample of head     *)
(* data at one relay block, and one of them again at another relay block.  *)
UpdateSamples ==
    {HeadUpdate(0, 0, d) : d \in HeadDataSamples} \cup {HeadUpdate(1, 1, <<0, 1>>)}

(* A stream's poll gives Ok(Ready(Some(item))), Err(e) or Ok(Ready(None)). *)
EvItem(x) == [t |-> "item", item |-> x]
EvErr(e) == [t |-> "err", e |-> e]
EvEnd == [t |-> "end"]

Ok(v) == [ok |-> TRUE, val |-> v]
Err(e) == [ok |-> FALSE, err |-> e]

(* ClientResult<bool> of mark_best / finalize: Ok(true), Ok(false), Err(e). *)
AdapterReturns == {Ok(TRUE), Ok(FALSE)} \cup {Err(e) : e \in ClientErrors}

(* What the task does, recorded in order. *)
Take(s, i) == [k |-> "take", s |-> s, i |-> i]
Call(s, i, op, hash, ret) ==
    [k |-> "call", s |-> s, i |-> i, op |-> op, hash |-> hash, ret |-> ret]
Warn(e) == [k |-> "warn", err |-> e]
Resolve(r) == [k |-> "resolve", res |-> r]

(***************************************************************************)
(* The two followers.  s is "best" (follow_best) or "fin"                  *)
(* (follow_finalized); they differ in the item's shape and the adapter     *)
(* operation only.                                                         *)
(***************************************************************************)
(* Variant in which follow_best decodes the relay-chain position of the    *)
(* update instead of its head_data.                                        *)
HeadDataOfRelay(s, item) ==
    IF s = "best" THEN <<item.relay_hash, item.relay_number>> ELSE item

HeadDataOf(s, item) == IF s = "best" THEN item.head_data ELSE item

(* Variant in which follow_finalized was copied from follow_best without    *)
(* changing the adapter operation.                                         *)
AdapterOpAlwaysMarkBest(s) == "mark_best"

AdapterOp(s) == IF s = "best" THEN "mark_best" ELSE "finalize"

(* Variant that reports a subscription's error under the local client's    *)
(* variant.                                                                *)
MapErrAsClient(e) == ErrClient(e)

(* .map_err(Error::Polkadot) *)
MapErrPolkadot(e) == ErrPolkadot(e)

(* Variant of the and_then closure that puts a default header in place of  *)
(* head data that does not decode.                                         *)
DecodeHeadOrDefault(head_data) ==
    LET h == Decode(head_data) IN
    IF h = None THEN Ok([parent_hash |-> 0, number |-> 0]) ELSE Ok(h)

(* the and_then closure: Header::decode(..).ok_or_else(|| InvalidHeadData) *)
DecodeHead(head_data) ==
    LET h == Decode(head_data) IN
    IF h = None THEN Err(ErrInvalidHeadData) ELSE Ok(h)

(* Variant of the for_each closure that treats Ok(false) as a failure.     *)
DispatchResultStrict(ret) ==
    IF ret.ok
    THEN IF ret.val THEN Ok("unit") ELSE Err(ErrClient("unknown block"))
    ELSE Err(ErrClient(ret.err))

(* the for_each closure: local.<op>(hash).map_err(Error::Client)?; Ok(())  *)
DispatchResult(ret) ==
    IF ret.ok THEN Ok("unit") ELSE Err(ErrClient(ret.err))

(* Variant of ForEach::poll with a look-ahead of one (a buffering stream   *)
(* adapter): while the call for an item runs, the next event, if ready,    *)
(* has already been taken from the subscription.                           *)
RECURSIVE ForEachPollPrefetch(_, _, _, _, _)
ForEachPollPrefetch(s, in, pos, ans, tr) ==
    IF pos >= Len(in)
    THEN [out |-> "NotReady", err |-> None, pos |-> pos, tr |-> tr]
    ELSE
      LET i == pos + 1
          ev == in[i]
          tr1 == IF \E n \in 1..Len(tr) : tr[n] = Take(s, i)
                 THEN tr ELSE Append(tr, Take(s, i))
      IN
      IF ev.t = "end"
      THEN [out |-> "Ready", err |-> None, pos |-> i, tr |-> tr1]
      ELSE IF ev.t = "err"
      THEN [out |-> "Err", err |-> MapErrPolkadot(ev.e), pos |-> i, tr |-> tr1]
      ELSE
        LET d == DecodeHead(HeadDataOf(s, ev.item)) IN
        IF ~d.ok
        THEN [out |-> "Err", err |-> d.err, pos |-> i, tr |-> tr1]
        ELSE
          LET ret == ans[i]
              trP == IF i < Len(in) THEN Append(tr1, Take(s, i + 1)) ELSE tr1
              tr2 == Append(trP, Call(s, i, AdapterOp(s), HashOf(d.val), ret))
              r == DispatchResult(ret)
          IN
          IF ~r.ok
          THEN [out |-> "Err", err |-> r.err, pos |-> i, tr |-> tr2]
          ELSE ForEachPollPrefetch(s, in, i, ans, tr2)

(* Variant of ForEach::poll that handles one event per poll.               *)
ForEachPollOnce(s, in, pos, ans, tr) ==
    IF pos >= Len(in)
    THEN [out |-> "NotReady", err |-> None, pos |-> pos, tr |-> tr]
    ELSE IF in[pos + 1].t = "end"
    THEN [out |-> "Ready", err |-> None, pos |-> pos + 1,
          tr |-> Append(tr, Take(s, pos + 1))]
    ELSE IF in[pos + 1].t = "err"
    THEN [out |-> "Err", err |-> MapErrPolkadot(in[pos + 1].e), pos |-> pos + 1,
          tr |-> Append(tr, Take(s, pos + 1))]
    ELSE IF ~DecodeHead(HeadDataOf(s, in[pos + 1].item)).ok
    THEN [out |-> "Err", err |-> ErrInvalidHeadData, pos |-> pos + 1,
          tr |-> Append(tr, Take(s, pos + 1))]
    ELSE [out |-> IF ans[pos + 1].ok THEN "NotReady" ELSE "Err",
          err |-> IF ans[pos + 1].ok THEN None ELSE ErrClient(ans[pos + 1].err),
          pos |-> pos + 1,
          tr |-> tr \o <<Take(s, pos + 1),
                         Call(s, pos + 1, AdapterOp(s),
                              HashOf(DecodeHead(HeadDataOf(s, in[pos + 1].item)).val),
                              ans[pos + 1])>>]

(***************************************************************************)
(* ForEach::poll over and_then over map_err over the subscription: take    *)
(* events while the stream has one ready.  in is the stream's history, pos *)
(* the number of events already taken, ans[i] what the local client        *)
(* returns when called for event i, tr the trace so far.  out is           *)
(* "NotReady", "Ready" (the stream ended) or "Err".                        *)
(***************************************************************************)
RECURSIVE ForEachPoll(_, _, _, _, _)
ForEachPoll(s, in, pos, ans, tr) ==
    IF pos >= Len(in)
    THEN [out |-> "NotReady", err |-> None, pos |-> pos, tr |-> tr]
    ELSE
      LET i == pos + 1
          ev == in[i]
          tr1 == Append(tr, Take(s, i))
      IN
      IF ev.t = "end"
      THEN [out |-> "Ready", err |-> None, pos |-> i, tr |-> tr1]
      ELSE IF ev.t = "err"
      THEN [out |-> "Err", err |-> MapErrPolkadot(ev.e), pos |-> i, tr |-> tr1]
      ELSE
        LET d == DecodeHead(HeadDataOf(s, ev.item)) IN
        IF ~d.ok
        THEN [out |-> "Err", err |-> d.err, pos |-> i, tr |-> tr1]
        ELSE
          LET ret == ans[i]
              tr2 == Append(tr1, Call(s, i, AdapterOp(s), HashOf(d.val), ret))
              r == DispatchResult(ret)
          IN
          IF ~r.ok
          THEN [out |-> "Err", err |-> r.err, pos |-> i, tr |-> tr2]
          ELSE ForEachPoll(s, in, i, ans, tr2)

(* Variant of MaybeDone::poll that does not remember that its follower     *)
(* resolved in an earlier poll.                                            *)
MaybeDonePollForgets(s, done, in, pos, ans, tr) ==
    IF done
    THEN [out |-> "NotReady", err |-> None, pos |-> pos, tr |-> tr]
    ELSE ForEachPoll(s, in, pos, ans, tr)

(* MaybeDone::poll: a follower that resolved is not polled again. *)
MaybeDonePoll(s, done, in, pos, ans, tr) ==
    IF done
    THEN [out |-> "Ready", err |-> None, pos |-> pos, tr |-> tr]
    ELSE ForEachPoll(s, in, pos, ans, tr)

(* Variant of Join's second half in which follow_finalized's error only     *)
(* ends follow_finalized (the followers run as separate tasks).            *)
JoinSecondIsolated(a, b) ==
    [out |-> IF a.out = "Ready" /\ b.out # "NotReady" THEN "Ready" ELSE "NotReady",
     err |-> None, bestPos |-> a.pos, finPos |-> b.pos,
     bestDone |-> a.out = "Ready", finDone |-> b.out # "NotReady", tr |-> b.tr]

(* Variant of Join's second half that resolves as soon as either follower  *)
(* has ended.                                                              *)
JoinSecondEither(a, b) ==
    IF b.out = "Err"
    THEN [out |-> "Err", err |-> b.err, bestPos |-> a.pos, finPos |-> b.pos,
          bestDone |-> a.out = "Ready", finDone |-> finDone, tr |-> b.tr]
    ELSE [out |-> IF a.out = "Ready" \/ b.out = "Ready" THEN "Ready" ELSE "NotReady",
          err |-> None, bestPos |-> a.pos, finPos |-> b.pos,
          bestDone |-> a.out = "Ready", finDone |-> b.out = "Ready", tr |-> b.tr]

(***************************************************************************)
(* Join::poll: poll follow_best and return its error at once; else poll    *)
(* follow_finalized and return its error at once; Ready when both are      *)
(* done.  a and b are what the two MaybeDone polls gave.                   *)
(***************************************************************************)
JoinSecond(a, b) ==
    IF b.out = "Err"
    THEN [out |-> "Err", err |-> b.err, bestPos |-> a.pos, finPos |-> b.pos,
          bestDone |-> a.out = "Ready", finDone |-> finDone, tr |-> b.tr]
    ELSE [out |-> IF a.out = "Ready" /\ b.out = "Ready" THEN "Ready" ELSE "NotReady",
          err |-> None, bestPos |-> a.pos, finPos |-> b.pos,
          bestDone |-> a.out = "Ready", finDone |-> b.out = "Ready", tr |-> b.tr]

(* Variant of Join::poll that polls follow_finalized before it looks at     *)
(* follow_best's outcome.                                                  *)
JoinFirstPollsBoth(a, ansF) ==
    IF a.out = "Err"
    THEN [out |-> "Err", err |-> a.err, bestPos |-> a.pos,
          finPos |-> MaybeDonePoll("fin", finDone, finIn, finPos, ansF, a.tr).pos,
          bestDone |-> bestDone, finDone |-> finDone,
          tr |-> MaybeDonePoll("fin", finDone, finIn, finPos, ansF, a.tr).tr]
    ELSE JoinSecond(a, MaybeDonePoll("fin", finDone, finIn, finPos, ansF, a.tr))

JoinFirst(a, ansF) ==
    IF a.out = "Err"
    THEN [out |-> "Err", err |-> a.err, bestPos |-> a.pos, finPos |-> finPos,
          bestDone |-> bestDone, finDone |-> finDone, tr |-> a.tr]
    ELSE JoinSecond(a, MaybeDonePoll("fin", finDone, finIn, finPos, ansF, a.tr))

(* Variant of Join::poll with the operands the other way round              *)
(* (follow_finalized.join(follow_best)).                                   *)
JoinPollFinalizedFirst(ansB, ansF) ==
    LET b == MaybeDonePoll("fin", finDone, finIn, finPos, ansF, trace) IN
    IF b.out = "Err"
    THEN [out |-> "Err", err |-> b.err, bestPos |-> bestPos, finPos |-> b.pos,
          bestDone |-> bestDone, finDone |-> finDone, tr |-> b.tr]
    ELSE LET a == MaybeDonePoll("best", bestDone, bestIn, bestPos, ansB, b.tr) IN
         IF a.out = "Err"
         THEN [out |-> "Err", err |-> a.err, bestPos |-> a.pos, finPos |-> b.pos,
               bestDone |-> bestDone, finDone |-> b.out = "Ready", tr |-> a.tr]
         ELSE [out |-> IF a.out = "Ready" /\ b.out = "Ready" THEN "Ready" ELSE "NotReady",
               err |-> None, bestPos |-> a.pos, finPos |-> b.pos,
               bestDone |-> a.out = "Ready", finDone |-> b.out = "Ready", tr |-> a.tr]

(* Variant that runs the two followers on two threads: the finalized        *)
(* follower's first step of a round starts inside the best follower's      *)
(* first step.                                                             *)
JoinPollConcurrent(ansB, ansF) ==
    LET j == JoinFirst(MaybeDonePoll("best", bestDone, bestIn, bestPos, ansB, trace), ansF)
        new == SubSeq(j.tr, Len(trace) + 1, Len(j.tr))
        b == SelectSeq(new, LAMBDA e : e.s = "best")
        f == SelectSeq(new, LAMBDA e : e.s = "fin")
    IN [out |-> j.out, err |-> j.err, bestPos |-> j.bestPos, finPos |-> j.finPos,
        bestDone |-> j.bestDone, finDone |-> j.finDone,
        tr |-> IF b = <<>> \/ f = <<>> THEN j.tr
               ELSE trace \o <<b[1], f[1]>> \o Tail(b) \o Tail(f)]

(* Variant that drives the followers in lock step (as `zip` would): a      *)
(* follower is polled only when both subscriptions have an event ready.    *)
JoinPollLockstep(ansB, ansF) ==
    IF bestPos >= Len(bestIn) \/ finPos >= Len(finIn)
    THEN [out |-> "NotReady", err |-> None, bestPos |-> bestPos, finPos |-> finPos,
          bestDone |-> bestDone, finDone |-> finDone, tr |-> trace]
    ELSE JoinFirst(MaybeDonePoll("best", bestDone, bestIn, bestPos, ansB, trace), ansF)

JoinPoll(ansB, ansF) ==
    JoinFirst(MaybeDonePoll("best", bestDone, bestIn, bestPos, ansB, trace), ansF)

(* Variant that drops the error without logging it (map_err(|_| ())).     *)
MapErrSilent(j) ==
    [out |-> j.out, bestPos |-> j.bestPos, finPos |-> j.finPos,
     bestDone |-> j.bestDone, finDone |-> j.finDone,
     tr |-> IF j.out = "Err" THEN Append(j.tr, Resolve("Err"))
            ELSE IF j.out = "Ready" THEN Append(j.tr, Resolve("Ok"))
            ELSE j.tr]

(* Variant that logs the error and then resolves successfully (or_else).   *)
MapErrWarnThenOk(j) ==
    [out |-> IF j.out = "Err" THEN "Ready" ELSE j.out,
     bestPos |-> j.bestPos, finPos |-> j.finPos,
     bestDone |-> j.bestDone, finDone |-> j.finDone,
     tr |-> IF j.out = "Err" THEN j.tr \o <<Warn(j.err), Resolve("Ok")>>
            ELSE IF j.out = "Ready" THEN Append(j.tr, Resolve("Ok"))
            ELSE j.tr]

(* .map_err(|e| warn!(..)): the error is logged and replaced by ().        *)
MapErrWarn(j) ==
    [out |-> j.out, bestPos |-> j.bestPos, finPos |-> j.finPos,
     bestDone |-> j.bestDone, finDone |-> j.finDone,
     tr |-> IF j.out = "Err" THEN j.tr \o <<Warn(j.err), Resolve("Err")>>
            ELSE IF j.out = "Ready" THEN Append(j.tr, Resolve("Ok"))
            ELSE j.tr]

(* One poll of the future follow_polkadot returns. *)
FuturePoll(ansB, ansF) == MapErrWarn(JoinPoll(ansB, ansF))

(***************************************************************************)
(* Actions.                                                                *)
(***************************************************************************)
Init ==
    /\ phase = "new"
    /\ acquired = <<>>
    /\ bestIn = <<>>
    /\ finIn = <<>>
    /\ bestPos = 0
    /\ finPos = 0
    /\ bestDone = FALSE
    /\ finDone = FALSE
    /\ result = "NotReady"
    /\ notified = FALSE
    /\ trace = <<>>

(* Variant with a retry: after a halt on a fault the subscriptions are      *)
(* taken again and the followers restarted.                                *)
FollowPolkadotRetries ==
    /\ phase = "new" \/ (phase = "complete" /\ result = "Err")
    /\ \E p \in ParaIds :
         acquired' = acquired \o <<[op |-> "head_updates", para_id |-> p],
                                   [op |-> "finalized_heads", para_id |-> p]>>
    /\ phase' = "pending"
    /\ result' = "NotReady"
    /\ UNCHANGED <<bestIn, finIn, bestPos, finPos, bestDone, finDone, notified, trace>>

(* follow_polkadot(para_id, local, polkadot): acquires both subscriptions. *)
FollowPolkadot ==
    /\ phase = "new"
    /\ \E p \in ParaIds :
         acquired' = <<[op |-> "head_updates", para_id |-> p],
                       [op |-> "finalized_heads", para_id |-> p]>>
    /\ phase' = "pending"
    /\ UNCHANGED <<bestIn, finIn, bestPos, finPos, bestDone, finDone, result,
                   notified, trace>>

StreamOpen(in) == IF in = <<>> THEN TRUE ELSE in[Len(in)].t = "item"

(* A subscription delivers events from the moment follow_polkadot takes it, *)
(* whether or not the task is still there to take them.                    *)
CanEmit(in) ==
    /\ phase # "new"
    /\ StreamOpen(in)
    /\ Len(bestIn) + Len(finIn) < MaxEvents

(* The head_updates stream yields an update, fails, or ends; each wakes the *)
(* task that polled it last.                                               *)
BestEmit ==
    /\ CanEmit(bestIn)
    /\ \E u \in UpdateSamples : bestIn' = Append(bestIn, EvItem(u))
    /\ notified' = TRUE
    /\ UNCHANGED <<phase, acquired, finIn, bestPos, finPos, bestDone, finDone, result, trace>>

BestFail ==
    /\ CanEmit(bestIn)
    /\ \E e \in PolkadotErrors : bestIn' = Append(bestIn, EvErr(e))
    /\ notified' = TRUE
    /\ UNCHANGED <<phase, acquired, finIn, bestPos, finPos, bestDone, finDone, result, trace>>

BestEnd ==
    /\ CanEmit(bestIn)
    /\ bestIn' = Append(bestIn, EvEnd)
    /\ notified' = TRUE
    /\ UNCHANGED <<phase, acquired, finIn, bestPos, finPos, bestDone, finDone, result, trace>>

(* The finalized_heads stream yields head data, fails, or ends. *)
FinEmit ==
    /\ CanEmit(finIn)
    /\ \E d \in HeadDataSamples : finIn' = Append(finIn, EvItem(d))
    /\ notified' = TRUE
    /\ UNCHANGED <<phase, acquired, bestIn, bestPos, finPos, bestDone, finDone, result, trace>>

FinFail ==
    /\ CanEmit(finIn)
    /\ \E e \in PolkadotErrors : finIn' = Append(finIn, EvErr(e))
    /\ notified' = TRUE
    /\ UNCHANGED <<phase, acquired, bestIn, bestPos, finPos, bestDone, finDone, result, trace>>

FinEnd ==
    /\ CanEmit(finIn)
    /\ finIn' = Append(finIn, EvEnd)
    /\ notified' = TRUE
    /\ UNCHANGED <<phase, acquired, bestIn, bestPos, finPos, bestDone, finDone, result, trace>>

(* Variant in which a follower survives the drop of the returned future    *)
(* (as if it had been spawned on its own).                                 *)
CanPollAfterDrop == phase \in {"pending", "dropped"}

(* The executor may poll the future while it is neither resolved nor dropped. *)
CanPoll == phase = "pending"

(* One poll of the returned future by its executor. *)
Poll ==
    /\ CanPoll
    /\ \E ansB \in [(bestPos + 1)..Len(bestIn) -> AdapterReturns],
          ansF \in [(finPos + 1)..Len(finIn) -> AdapterReturns] :
         LET f == FuturePoll(ansB, ansF) IN
         /\ bestPos' = f.bestPos
         /\ finPos' = f.finPos
         /\ bestDone' = f.bestDone
         /\ finDone' = f.finDone
         /\ trace' = f.tr
         /\ result' = IF f.out = "Err" THEN "Err"
                      ELSE IF f.out = "Ready" THEN "Ok" ELSE "NotReady"
         /\ phase' = IF f.out = "NotReady" THEN "pending" ELSE "complete"
    /\ notified' = FALSE
    /\ UNCHANGED <<acquired, bestIn, finIn>>

(* The owner drops the future before it resolved. *)
Drop ==
    /\ phase = "pending"
    /\ phase' = "dropped"
    /\ UNCHANGED <<acquired, bestIn, finIn, bestPos, finPos, bestDone, finDone, result,
                   notified, trace>>

Next ==
    \/ FollowPolkadot
    \/ BestEmit
    \/ BestFail
    \/ BestEnd
    \/ FinEmit
    \/ FinFail
    \/ FinEnd
    \/ Poll
    \/ Drop

Spec == Init /\ [][Next]_vars

(* The executor polls a task that has been woken: the step that takes the  *)
(* notification (only Poll does) is not postponed forever while the task   *)
(* is pending.                                                             *)
TaskPolled == phase = "pending" /\ notified /\ notified' = FALSE

FairSpec == Spec /\ WF_notified(TaskPolled)

(***************************************************************************)
(* Reading the histories and the trace.                                    *)
(***************************************************************************)
CallsOf(op) == SelectSeq(trace, LAMBDA e : e.k = "call" /\ e.op = op)

HashesOf(op) == LET c == CallsOf(op) IN [j \in 1..Len(c) |-> c[j].hash]

AllCalls == SelectSeq(trace, LAMBDA e : e.k = "call")

Warnings == SelectSeq(trace, LAMBDA e : e.k = "warn")

(* the head data of the j-th event of a stream's history *)
BestData(j) == bestIn[j].item.head_data
FinData(j) == finIn[j].item

BestDecodes(j) == bestIn[j].t = "item" /\ Decode(BestData(j)) # None
FinDecodes(j) == finIn[j].t = "item" /\ Decode(FinData(j)) # None

BestMalformed(j) == bestIn[j].t = "item" /\ Decode(BestData(j)) = None
FinMalformed(j) == finIn[j].t = "item" /\ Decode(FinData(j)) = None

(* the hashes of the first n events of a history, all of them decodable *)
BestHashes(n) == [j \in 1..n |-> HashOf(Decode(BestData(j)))]
FinHashes(n) == [j \in 1..n |-> HashOf(Decode(FinData(j)))]

(* the number of updates (not end, not error) a history holds *)
NumItems(in) == Cardinality({j \in 1..Len(in) : in[j].t = "item"})

MarkBestHashes == HashesOf("mark_best")
FinalizeHashes == HashesOf("finalize")

(* every event of a history is an update that decodes, or the stream's end *)
BestAllDecode == \A j \in 1..Len(bestIn) : bestIn[j].t = "end" \/ BestDecodes(j)
FinAllDecode == \A j \in 1..Len(finIn) : finIn[j].t = "end" \/ FinDecodes(j)

(* the hashes of every update the stream has delivered, in order *)
BestDelivered == BestHashes(NumItems(bestIn))
FinDelivered == FinHashes(NumItems(finIn))

AllReturnsOk == \A j \in 1..Len(AllCalls) : AllCalls[j].ret.ok

(***************************************************************************)
(* C1. When every best-head update decodes and nothing else in the task    *)
(* faults, then once the task has been polled since the last event         *)
(* arrived, mark_best has been called exactly once per delivered update,   *)
(* the i-th call with the hash of the header decoded from the i-th         *)
(* update: none skipped, duplicated or reordered.                          *)
(***************************************************************************)
C1_MarkBestOncePerUpdateInOrder ==
    (~notified /\ BestAllDecode /\ result # "Err")
        => MarkBestHashes = BestDelivered

C1_Witness ==
    /\ ~notified
    /\ NumItems(bestIn) = 3
    /\ BestAllDecode
    /\ result = "NotReady"
    /\ MarkBestHashes = BestDelivered
    /\ MarkBestHashes[1] # MarkBestHashes[2]

(***************************************************************************)
(* C2. When best-head updates 1..k-1 decode and update k is malformed,     *)
(* mark_best is never called for update k or a later one, and once update  *)
(* k has been taken mark_best has been called exactly k-1 times and the    *)
(* task has halted with InvalidHeadData.                                   *)
(***************************************************************************)
C2_MalformedUpdateHalts ==
    \A k \in 1..Len(bestIn) :
        (BestMalformed(k) /\ \A j \in 1..(k - 1) : BestDecodes(j)) =>
            /\ bestPos <= k
            /\ Len(MarkBestHashes) <= k - 1
            /\ MarkBestHashes = BestHashes(Len(MarkBestHashes))
            /\ bestPos = k =>
                  /\ Len(MarkBestHashes) = k - 1
                  /\ phase = "complete"
                  /\ result = "Err"
                  /\ Warnings = <<Warn(ErrInvalidHeadData)>>

C2_Witness ==
    /\ Len(bestIn) = 3
    /\ BestDecodes(1)
    /\ BestMalformed(2)
    /\ BestDecodes(3)
    /\ bestPos = 2
    /\ Len(MarkBestHashes) = 1
    /\ result = "Err"

(***************************************************************************)
(* C3. Ok(false) from mark_best or finalize never halts the task: as long  *)
(* as no stream faults and every adapter call has returned Ok (true or     *)
(* false), the task has not halted with an error, and once it has been     *)
(* polled since the last event arrived every delivered update of both      *)
(* subscriptions has been dispatched.                                      *)
(***************************************************************************)
C3_UnknownBlockIsNotFatal ==
    (BestAllDecode /\ FinAllDecode /\ AllReturnsOk) =>
        /\ result # "Err"
        /\ ~notified => /\ MarkBestHashes = BestDelivered
                        /\ FinalizeHashes = FinDelivered

C3_Witness ==
    /\ Len(AllCalls) = 3
    /\ \A j \in 1..3 : AllCalls[j].ret = Ok(FALSE)
    /\ AllCalls[1].op # AllCalls[3].op
    /\ phase = "pending"
    /\ bestPos = Len(bestIn)
    /\ finPos = Len(finIn)

(* A follower has taken a fatal event: a stream error, head data that does *)
(* not decode, or an update whose adapter call returned Err.               *)
CallFailed(s, j) ==
    \E n \in 1..Len(trace) :
        /\ trace[n].k = "call"
        /\ trace[n].s = s
        /\ trace[n].i = j
        /\ ~trace[n].ret.ok

BestFaulted ==
    \E j \in 1..bestPos :
        bestIn[j].t = "err" \/ BestMalformed(j) \/ CallFailed("best", j)

FinFaulted ==
    \E j \in 1..finPos :
        finIn[j].t = "err" \/ FinMalformed(j) \/ CallFailed("fin", j)

(* the number of decodable updates among the events a follower has taken *)
BestTakenDecodable == Cardinality({j \in 1..bestPos : BestDecodes(j)})
FinTakenDecodable == Cardinality({j \in 1..finPos : FinDecodes(j)})

(* the trace ends with the warning and the resolution, and what precedes   *)
(* them is follower s handling its event number j                          *)
HaltedRightAfter(s, j) ==
    LET n == Len(trace) IN
    /\ n >= 3
    /\ trace[n] = Resolve("Err")
    /\ trace[n - 1].k = "warn"
    /\ trace[n - 2].k \in {"take", "call"}
    /\ trace[n - 2].s = s
    /\ trace[n - 2].i = j

(***************************************************************************)
(* C4. A fatal error on the finalized-head follower alone halts the whole  *)
(* task: once follow_finalized has taken its fatal event the task is       *)
(* resolved with an error, finalize has been called once per decodable     *)
(* payload taken, and nothing of either subscription is taken or           *)
(* dispatched after that event.                                            *)
(***************************************************************************)
C4_FinalizedFaultStopsBoth ==
    (FinFaulted /\ ~BestFaulted) =>
        /\ phase = "complete"
        /\ result = "Err"
        /\ HaltedRightAfter("fin", finPos)
        /\ FinalizeHashes = FinHashes(FinTakenDecodable)
        /\ MarkBestHashes = BestHashes(BestTakenDecodable)

C4_Witness ==
    /\ bestIn = <<>>
    /\ Len(finIn) = 2
    /\ FinDecodes(1)
    /\ FinMalformed(2)
    /\ finPos = 2
    /\ Len(AllCalls) = 1
    /\ AllCalls[1].op = "finalize"
    /\ result = "Err"

(***************************************************************************)
(* C5. When mark_best returns Err on the k-th best-head update, mark_best  *)
(* has been called exactly k times, the task has halted with               *)
(* Error::Client, and nothing is dispatched after the failing call:        *)
(* finalized payloads still queued are never passed to finalize.           *)
(***************************************************************************)
C5_MarkBestErrorHaltsAtOnce ==
    \A k \in 1..bestPos :
        CallFailed("best", k) =>
            /\ bestPos = k
            /\ Len(CallsOf("mark_best")) = k
            /\ \A j \in 1..(k - 1) : CallsOf("mark_best")[j].ret.ok
            /\ phase = "complete"
            /\ result = "Err"
            /\ Len(Warnings) = 1
            /\ Warnings[1].err.variant = "Client"
            /\ HaltedRightAfter("best", k)

C5_Witness ==
    /\ bestPos = 2
    /\ CallFailed("best", 2)
    /\ Len(CallsOf("mark_best")) = 2
    /\ finPos = 0
    /\ Len(finIn) = 1
    /\ FinDecodes(1)
    /\ FinalizeHashes = <<>>
    /\ phase = "complete"

C7_SuccessOnlyIfBothEnded ==
    /\ result = "Ok" =>
          /\ bestDone /\ finDone
          /\ bestPos = Len(bestIn) /\ finPos = Len(finIn)
          /\ bestIn[Len(bestIn)] = EvEnd /\ finIn[Len(finIn)] = EvEnd
          /\ BestAllDecode /\ FinAllDecode
          /\ AllReturnsOk
          /\ MarkBestHashes = BestDelivered
          /\ FinalizeHashes = FinDelivered
          /\ Warnings = <<>>
    /\ ((bestDone \/ finDone) /\ (BestFaulted \/ FinFaulted)) => result = "Err"

C7_Witness ==
    /\ result = "Ok"
    /\ Len(AllCalls) = 1
    /\ bestDone /\ finDone

(* every event a stream has delivered is an update that decodes *)
BestOnlyUpdates == \A j \in 1..Len(bestIn) : BestDecodes(j)
FinOnlyUpdates == \A j \in 1..Len(finIn) : FinDecodes(j)

(***************************************************************************)
(* C8. Progress on one subscription does not depend on the other: while    *)
(* the finalized-head stream is idle (has delivered nothing and has not    *)
(* ended), once the task has been polled since the last event arrived      *)
(* every valid best-head update delivered has been dispatched to           *)
(* mark_best, in order, and the task is still running; and the same with   *)
(* the two streams exchanged.                                              *)
(***************************************************************************)
C8_IdleStreamDoesNotBlockTheOther ==
    /\ (~notified /\ finIn = <<>> /\ BestOnlyUpdates /\ AllReturnsOk)
          => (result = "NotReady" /\ phase # "complete"
              /\ MarkBestHashes = BestDelivered)
    /\ (~notified /\ bestIn = <<>> /\ FinOnlyUpdates /\ AllReturnsOk)
          => (result = "NotReady" /\ phase # "complete"
              /\ FinalizeHashes = FinDelivered)

C8_Witness ==
    /\ ~notified
    /\ finIn = <<>>
    /\ Len(bestIn) = 3
    /\ BestOnlyUpdates
    /\ Len(MarkBestHashes) = 3
    /\ MarkBestHashes = BestDelivered
    /\ MarkBestHashes[2] # MarkBestHashes[3]
    /\ phase = "pending"

(***************************************************************************)
(* C9. Dropping the returned future stops both followers: after the drop   *)
(* no event of either subscription is taken, no adapter call is made and   *)
(* the future never resolves.                                              *)
(***************************************************************************)
C9_DropStopsBothFollowers ==
    [][phase = "dropped" => UNCHANGED <<phase, bestPos, finPos, trace, result>>]_vars

C9_Witness ==
    /\ phase = "dropped"
    /\ notified
    /\ bestPos < Len(bestIn)
    /\ finPos < Len(finIn)
    /\ BestDecodes(bestPos + 1)
    /\ FinDecodes(finPos + 1)
    /\ Len(AllCalls) = 1

(***************************************************************************)
(* C10. Each finalized-head payload that decodes triggers exactly one      *)
(* finalize call with the decoded header's hash, in arrival order, and     *)
(* the channels never cross: finalize is called for finalized payloads     *)
(* only and mark_best for best-head updates only.                          *)
(***************************************************************************)
C10_FinalizeOncePerPayloadNoCrossing ==
    /\ FinalizeHashes = FinHashes(FinTakenDecodable)
    /\ MarkBestHashes = BestHashes(BestTakenDecodable)
    /\ \A n \in 1..Len(AllCalls) :
          AllCalls[n].s = (IF AllCalls[n].op = "finalize" THEN "fin" ELSE "best")

C10_Witness ==
    /\ Len(FinalizeHashes) = 2
    /\ FinalizeHashes[1] # FinalizeHashes[2]
    /\ Len(MarkBestHashes) = 1
    /\ MarkBestHashes[1] # FinalizeHashes[2]
    /\ AllCalls[2].op = "mark_best"

(* a follower's history and position, by follower *)
HistoryOf(s) == IF s = "best" THEN bestIn ELSE finIn
TakenOf(s) == IF s = "best" THEN bestPos ELSE finPos

(* the call follower s made for its event j, if it made one *)
CallsFor(s, j) ==
    SelectSeq(trace, LAMBDA e : e.k = "call" /\ e.s = s /\ e.i = j)

(***************************************************************************)
(* C11. The error the task halts with is classified by its cause, for      *)
(* either follower: a subscription error gives Error::Polkadot carrying    *)
(* the subscription's own error value and no adapter call is made for      *)
(* that event; head data that does not decode gives InvalidHeadData and    *)
(* no call; an Err from mark_best or finalize gives Error::Client with     *)
(* the client's error.  Exactly that one error is logged.                  *)
(***************************************************************************)
C11_ErrorClassifiedByCause ==
    \A s \in {"best", "fin"} :
        \A j \in 1..TakenOf(s) :
            LET ev == HistoryOf(s)[j] IN
            /\ ev.t = "err" =>
                  /\ Warnings = <<Warn(ErrPolkadot(ev.e))>>
                  /\ CallsFor(s, j) = <<>>
            /\ (ev.t = "item" /\ Decode(HeadDataOf(s, ev.item)) = None) =>
                  /\ Warnings = <<Warn(ErrInvalidHeadData)>>
                  /\ CallsFor(s, j) = <<>>
            /\ CallFailed(s, j) =>
                  Warnings = <<Warn(ErrClient(CallsFor(s, j)[1].ret.err))>>

C11_Witness ==
    /\ finPos = 2
    /\ finIn[2] = EvErr("p2")
    /\ Len(CallsOf("finalize")) = 1
    /\ Warnings = <<Warn(ErrPolkadot("p2"))>>
    /\ result = "Err"

BestEnded == bestIn # <<>> /\ bestIn[Len(bestIn)] = EvEnd
FinEnded == finIn # <<>> /\ finIn[Len(finIn)] = EvEnd

(***************************************************************************)
(* C12. If both subscriptions end normally, every update decodes and no    *)
(* adapter call returns an error, then under fair polling the task         *)
(* eventually resolves Ok (unless its owner drops it first), and it does   *)
(* so with every delivered update dispatched.  While only one subscription *)
(* has ended, the task is still running and, once polled, has dispatched   *)
(* every update the other subscription delivered.                          *)
(***************************************************************************)
C12_CompletesWhenBothEnd ==
    /\ [](((BestEnded /\ ~FinEnded) /\ BestAllDecode /\ FinAllDecode /\ AllReturnsOk) =>
            (result = "NotReady" /\ (~notified => FinalizeHashes = FinDelivered)))
    /\ [](((FinEnded /\ ~BestEnded) /\ BestAllDecode /\ FinAllDecode /\ AllReturnsOk) =>
            (result = "NotReady" /\ (~notified => MarkBestHashes = BestDelivered)))
    /\ (BestEnded /\ FinEnded /\ BestAllDecode /\ FinAllDecode)
          ~> \/ phase = "dropped"
             \/ ~AllReturnsOk
             \/ /\ result = "Ok"
                /\ MarkBestHashes = BestDelivered
                /\ FinalizeHashes = FinDelivered

C12_Witness ==
    /\ result = "Ok"
    /\ Len(FinalizeHashes) = 1
    /\ FinalizeHashes = FinDelivered
    /\ trace[1] = Take("best", 1)
    /\ trace[2] = Take("fin", 1)
    /\ bestIn = <<EvEnd>>

(* the events follower s took, as the trace records them *)
TakesOf(s) == SelectSeq(trace, LAMBDA e : e.k = "take" /\ e.s = s)

AcquiredOps == [j \in 1..Len(acquired) |-> acquired[j].op]

(***************************************************************************)
(* C13. There are no retries: each subscription is acquired exactly once   *)
(* for the lifetime of a task, also after a subscription ended or a fault  *)
(* halted the task; each event is taken from its subscription once, in     *)
(* order, and no event is dispatched twice.                                *)
(***************************************************************************)
C13_NoRetries ==
    /\ AcquiredOps = (IF phase = "new" THEN <<>>
                      ELSE <<"head_updates", "finalized_heads">>)
    /\ \A s \in {"best", "fin"} :
          /\ Len(TakesOf(s)) = TakenOf(s)
          /\ \A j \in 1..TakenOf(s) :
                /\ TakesOf(s)[j].i = j
                /\ Len(CallsFor(s, j)) <= 1
    /\ Len(SelectSeq(trace, LAMBDA e : e.k = "resolve")) <= 1

C13_Witness ==
    /\ phase = "complete"
    /\ result = "Err"
    /\ Len(bestIn) = 2
    /\ BestMalformed(1)
    /\ bestPos = 1
    /\ BestDecodes(2)
    /\ FinEnded
    /\ finPos = 0
    /\ Len(acquired) = 2

ErrorValues ==
    {ErrClient(e) : e \in ClientErrors} \cup {ErrPolkadot(e) : e \in PolkadotErrors}
        \cup {ErrInvalidHeadData}

(***************************************************************************)
(* C14. When the task halts on a fault exactly one warning is logged, it   *)
(* carries the error, and it is logged before the task reports its         *)
(* result; while the task runs and when both followers end normally no     *)
(* warning is logged.                                                      *)
(***************************************************************************)
C14_OneWarningBeforeResult ==
    LET n == Len(trace) IN
    IF result = "Err"
    THEN /\ Len(Warnings) = 1
         /\ Warnings[1].err \in ErrorValues
         /\ n >= 3
         /\ trace[n] = Resolve("Err")
         /\ trace[n - 1] = Warnings[1]
         /\ trace[n - 2].k \in {"take", "call"}
    ELSE /\ Warnings = <<>>
         /\ result = "Ok" => trace[n] = Resolve("Ok")

C14_Witness ==
    /\ result = "Err"
    /\ Len(trace) = 6
    /\ trace[5] = Warn(ErrClient("c1"))
    /\ trace[6] = Resolve("Err")
    /\ trace[4].k = "call"
    /\ trace[4].op = "finalize"

(* the position in the trace of follower s taking its event j *)
TakeIndex(s, j) == CHOOSE n \in 1..Len(trace) : trace[n] = Take(s, j)

(* event j of follower s is an item that decodes, so an adapter call is due *)
CallDue(s, j) ==
    /\ HistoryOf(s)[j].t = "item"
    /\ DecodeHead(HeadDataOf(s, HistoryOf(s)[j].item)).ok

(***************************************************************************)
(* C15. Decoding an item and the adapter call for it are one uninterrupted *)
(* step: every taken item that decodes has its adapter call already        *)
(* returned, and between a follower taking an item and the call for that   *)
(* item returning the other follower takes nothing and calls nothing.      *)
(***************************************************************************)
C15_TakeToCallUninterrupted ==
    \A s \in {"best", "fin"} : \A j \in 1..TakenOf(s) :
        CallDue(s, j) =>
            /\ Len(CallsFor(s, j)) = 1
            /\ \E c \in 1..Len(trace) :
                  /\ trace[c] = CallsFor(s, j)[1]
                  /\ TakeIndex(s, j) < c
                  /\ \A n \in (TakeIndex(s, j) + 1)..(c - 1) :
                        trace[n].k \in {"take", "call"} => trace[n].s = s

C15_Witness ==
    /\ Len(trace) = 6
    /\ [n \in 1..6 |-> trace[n].k] = <<"take", "call", "take", "call", "take", "call">>
    /\ [n \in 1..6 |-> trace[n].s] = <<"best", "best", "fin", "fin", "best", "best">>

(* head data d is the encoding of one header and nothing else *)
ExactlyOneHeader(d) == Decode(d) # None /\ Encode(Decode(d)) = d

(***************************************************************************)
(* C16. An update is accepted only if its head_data decodes to exactly one *)
(* Header: a taken item whose head_data is a header encoding followed by   *)
(* trailing bytes, or a truncated encoding, causes no adapter call and     *)
(* halts the task with InvalidHeadData.                                    *)
(***************************************************************************)
C16_OnlyExactEncodingsAccepted ==
    \A s \in {"best", "fin"} : \A j \in 1..TakenOf(s) :
        (/\ HistoryOf(s)[j].t = "item"
         /\ ~ExactlyOneHeader(HeadDataOf(s, HistoryOf(s)[j].item)))
            => /\ CallsFor(s, j) = <<>>
               /\ Warnings = <<Warn(ErrInvalidHeadData)>>

(* what one round (one poll of the task) added to the trace *)
RoundTrace == SubSeq(trace', Len(trace) + 1, Len(trace'))

(* the follower whose fault halted the task in this round *)
RoundFaultOf == RoundTrace[Len(RoundTrace) - 2].s

(* an event that is fatal whatever the local client answers *)
FatalEvent(s, ev) ==
    \/ ev.t = "err"
    \/ ev.t = "item" /\ ~DecodeHead(HeadDataOf(s, ev.item)).ok

ReadyHasFatal(s) ==
    \E j \in (TakenOf(s) + 1)..Len(HistoryOf(s)) : FatalEvent(s, HistoryOf(s)[j])

(***************************************************************************)
(* C17. In every round of the task the best-head follower is serviced      *)
(* before the finalized-head follower and a follower drains all that is    *)
(* ready.  If the best-head follower fails in a round, nothing is taken    *)
(* from finalized_heads in that round; if the finalized-head follower      *)
(* fails, every best-head item that was ready has been passed to mark_best *)
(* before; if both have a fatal event ready only the best-head follower's  *)
(* error is reported.                                                      *)
(***************************************************************************)
C17_BestServicedFirstAndDrained ==
    [][trace' # trace =>
        /\ \A m, n \in 1..Len(RoundTrace) :
              (/\ RoundTrace[m].k \in {"take", "call"} /\ RoundTrace[m].s = "fin"
               /\ RoundTrace[n].k \in {"take", "call"} /\ RoundTrace[n].s = "best")
                 => n < m
        /\ result' # "Err" => bestPos' = Len(bestIn) /\ finPos' = Len(finIn)
        /\ (result' = "Err" /\ RoundFaultOf = "best") => finPos' = finPos
        /\ (result' = "Err" /\ RoundFaultOf = "fin") =>
              /\ bestPos' = Len(bestIn)
              /\ \A j \in (bestPos + 1)..Len(bestIn) :
                    bestIn[j].t = "item" =>
                      \E n \in 1..Len(RoundTrace) :
                          /\ RoundTrace[n].k = "call"
                          /\ RoundTrace[n].op = "mark_best"
                          /\ RoundTrace[n].i = j
        /\ (ReadyHasFatal("best") /\ ReadyHasFatal("fin") /\ ~bestDone) =>
              /\ result' = "Err"
              /\ RoundFaultOf = "best"
              /\ Len(SelectSeq(RoundTrace, LAMBDA e : e.k = "warn")) = 1
    ]_vars

(* both followers had a fatal event ready in the halting round; only the   *)
(* best-head follower's was taken and reported                             *)
C17_Witness ==
    /\ result = "Err"
    /\ ~notified
    /\ bestIn = <<EvErr("p1")>>
    /\ Len(finIn) = 2
    /\ finIn[1].t = "item"
    /\ finIn[2] = EvErr("p2")
    /\ finPos = 0
    /\ Warnings = <<Warn(ErrPolkadot("p1"))>>

(* the takes of follower s that yielded an item (not an error or the end) *)
ItemTakesOf(s) ==
    SelectSeq(trace, LAMBDA e : e.k = "take" /\ e.s = s /\ HistoryOf(s)[e.i].t = "item")

CallsBy(s) == SelectSeq(trace, LAMBDA e : e.k = "call" /\ e.s = s)

(***************************************************************************)
(* C18. No look-ahead on a subscription: for each follower the number of   *)
(* items taken exceeds the number of adapter calls issued by at most one,  *)
(* and then the last item taken is the one whose decode failed; an event   *)
(* after the first is taken only after the call for the item before it     *)
(* has returned Ok.                                                        *)
(***************************************************************************)
C18_NoLookAhead ==
    \A s \in {"best", "fin"} :
        /\ Len(ItemTakesOf(s)) - Len(CallsBy(s)) \in {0, 1}
        /\ Len(ItemTakesOf(s)) - Len(CallsBy(s)) = 1 =>
              ~CallDue(s, ItemTakesOf(s)[Len(ItemTakesOf(s))].i)
        /\ \A n \in 1..Len(trace) :
              (trace[n].k = "take" /\ trace[n].s = s /\ trace[n].i > 1) =>
                  \E c \in 1..(n - 1) :
                      /\ trace[c].k = "call"
                      /\ trace[c].s = s
                      /\ trace[c].i = trace[n].i - 1
                      /\ trace[c].ret.ok

C18_Witness ==
    /\ Len(ItemTakesOf("best")) = 2
    /\ Len(CallsBy("best")) = 1
    /\ Len(ItemTakesOf("fin")) = 1
    /\ Len(CallsBy("fin")) = 1
    /\ result = "Err"

(***************************************************************************)
(* C19. Both subscriptions are taken when follow_polkadot is called,       *)
(* head_updates first and finalized_heads second, with one and the same    *)
(* para_id, before any event is delivered, taken or dispatched; and two    *)
(* head updates with the same head_data lead to the same adapter call with *)
(* the same argument whatever their relay_hash and relay_number.           *)
(***************************************************************************)
C19_EagerOrderedAcquisitionRelayIgnored ==
    /\ IF phase = "new"
       THEN acquired = <<>> /\ bestIn = <<>> /\ finIn = <<>> /\ trace = <<>>
       ELSE \E p \in ParaIds :
              acquired = <<[op |-> "head_updates", para_id |-> p],
                           [op |-> "finalized_heads", para_id |-> p]>>
    /\ \A j, k \in 1..bestPos :
          (/\ bestIn[j].t = "item" /\ bestIn[k].t = "item"
           /\ bestIn[j].item.head_data = bestIn[k].item.head_data
           /\ CallsFor("best", j) # <<>>) =>
              \/ /\ k > j
                 /\ ~CallsFor("best", j)[1].ret.ok
              \/ /\ Len(CallsFor("best", k)) = 1
                 /\ CallsFor("best", k)[1].op = CallsFor("best", j)[1].op
                 /\ CallsFor("best", k)[1].hash = CallsFor("best", j)[1].hash

C19_Witness ==
    /\ bestPos = 2
    /\ acquired[1] = [op |-> "head_updates", para_id |-> 2]
    /\ bestIn[1] = EvItem(HeadUpdate(1, 1, <<0, 1>>))
    /\ bestIn[2] = EvItem(HeadUpdate(0, 0, <<0, 1>>))
    /\ Len(CallsOf("mark_best")) = 2
    /\ CallsOf("mark_best")[1].hash = CallsOf("mark_best")[2].hash

TypeOK ==
    /\ phase \in {"new", "pending", "complete", "dropped"}
    /\ bestPos \in 0..Len(bestIn)
    /\ finPos \in 0..Len(finIn)
    /\ result \in {"NotReady", "Ok", "Err"}
    /\ notified \in BOOLEAN
====
